---- MODULE Spec2Model ----
(***************************************************************************)
(* ReplyHandler of manta/core/reply_handler.py: the response-processing    *)
(* and tool-dispatch operations, called either by the agent cycle of the   *)
(* specification (section 4.4) or directly, in any order, by a client of   *)
(* the class.                                                              *)
(*                                                                         *)
(* Text is a sequence of tokens (strings); an optional value is a record   *)
(* [some, val], so that None, the empty text and a non-empty text are      *)
(* three different values, as they are for Python's truth tests.           *)
(***************************************************************************)
EXTENDS Integers, Sequences, FiniteSets, TLC

VARIABLES
    conversations,  \* self.conversations: the ordered log of messages
    caller,         \* who calls the handler: "cycle" or "direct"
    state,          \* the agent cycle's state
    pc,             \* position inside the handler: "idle", "parse", "ask"
    response,       \* the reply the cycle holds between chat() and process_response
    processed,      \* the ProcessedResponse the cycle holds
    last,           \* the last step of a handler operation: its name, arguments, result
    context,        \* the context handed to the backend by the last chat() call
    output,         \* what the cycle returned to its caller
    nChat,          \* backend calls made
    nExec,          \* tool handlers invoked
    nOps,           \* operations started by a direct caller
    prompts,        \* "Please answer 'yes' or 'no'." lines printed by the running gate
    replies,        \* the raw replies handed to process_response, in order
    gates,          \* the values the permission gate has returned, in order
    tool_manager    \* self.tool_manager: the names the registry resolves

vars == <<conversations, caller, state, pc, response, processed, last, context,
          output, nChat, nExec, nOps, prompts, replies, gates, tool_manager>>

------------------------------------------------------------------------------
(* Bounds *)

MaxTurns == 2
MaxOps == 2
MaxPrompts == 1

------------------------------------------------------------------------------
(* Optional values and Python's truth test *)

None == [some |-> FALSE, val |-> <<>>]
Some(v) == [some |-> TRUE, val |-> v]

NoName == [some |-> FALSE, val |-> ""]

\* `if x:` for an Optional[str] held as text
Truthy(o) == o.some /\ o.val # <<>>

\* `if tool:` for an Optional[str] held as a name
TruthyName(o) == o.some /\ o.val # ""

\* f"{tool}" for tool: str | None
FormatName(o) == IF o.some THEN o.val ELSE "None"

------------------------------------------------------------------------------
(* Messages and the conversation history *)

Message(role, content) == [role |-> role, content |-> content]

add_message(history, role, content) == Append(history, Message(role, content))

get_context(history) == history

Task == <<"Summarise", "x">>

InitialHistories == { <<>>, <<Message("user", Task)>> }

IsPrefix(s, t) == Len(s) <= Len(t) /\ SubSeq(t, 1, Len(s)) = s

Suffix(s, n) == SubSeq(s, n + 1, Len(s))

------------------------------------------------------------------------------
(* The tool registry *)

CompletionTool == "attempt_completion"

ToolNames == { "execute_command", "read_file", "write_file", "replace_file",
               "ask_user", CompletionTool }

get_tools_description == [n \in ToolNames |-> <<"Usage of ", n>>]

------------------------------------------------------------------------------
(* The tool-call directive and its parser *)

Open(n) == "<" \o n \o ">"
Close(n) == "</" \o n \o ">"

BlockNames == ToolNames \cup { "bogus", "" }
ParamKeys == { "path", "result" }

Min(S) == CHOOSE x \in S : \A y \in S : x <= y

EmptyParams == [k \in {} |-> <<>>]

\* the parameters of a block body: for each key with an opening and a later
\* closing tag, the raw text between the first opening tag and the next closing one
BlockParams(body) ==
    LET has(k) == \E a \in 1..Len(body) : \E b \in 1..Len(body) :
                      a < b /\ body[a] = Open(k) /\ body[b] = Close(k)
        keys == { k \in ParamKeys : has(k) }
        val(k) == LET a == Min({ i \in 1..Len(body) : body[i] = Open(k) })
                      b == Min({ j \in (a + 1)..Len(body) : body[j] = Close(k) })
                  IN  SubSeq(body, a + 1, b - 1)
    IN  [k \in keys |-> val(k)]

parse_tool_use(text) ==
    LET opens == { i \in 1..Len(text) : \E n \in BlockNames : text[i] = Open(n) }
    IN  IF opens = {}
        THEN [tool |-> NoName, params |-> EmptyParams]
        ELSE LET i == Min(opens)
                 n == CHOOSE m \in BlockNames : text[i] = Open(m)
                 closes == { j \in (i + 1)..Len(text) : text[j] = Close(n) }
             IN  IF closes = {}
                 THEN [tool |-> [some |-> TRUE, val |-> n], params |-> EmptyParams]
                 ELSE [tool |-> [some |-> TRUE, val |-> n],
                       params |-> BlockParams(SubSeq(text, i + 1, Min(closes) - 1))]

PlainReply == <<"All", "done.">>
ReadReply == <<"<read_file>", "<path>", "x", "</path>", "</read_file>">>
CompletionReply == <<"<attempt_completion>", "<result>", "ok", "</result>",
                     "</attempt_completion>">>
BogusReply == <<"<bogus>", "</bogus>">>
TrailingReply == <<"Reading.", "<read_file>", "<path>", "x", "</path>", "</read_file>",
                   "then", "<attempt_completion>", "</attempt_completion>">>
MalformedReply == <<"<read_file>", "<path>", "x">>
EmptyNameReply == <<"<>", "<path>", "x", "</path>", "</>">>

Replies == { PlainReply, ReadReply, CompletionReply, BogusReply, TrailingReply,
             MalformedReply, EmptyNameReply }

------------------------------------------------------------------------------
(* ProcessedResponse and process_response *)

TOOL_CALL == "tool_call"
FINAL_RESPONSE == "final_response"

ProcessedResponse(type, content, tool_name, tool_params) ==
    [type |-> type, content |-> content, tool_name |-> tool_name,
     tool_params |-> tool_params]

NoProcessed == ProcessedResponse("none", <<>>, NoName, None)

\* the reply is recorded under the wrong role
process_response_record_AsUser(history, reply) == add_message(history, "user", reply)

\* the reply is recorded up to the end of its first tool-call block only
process_response_record_Truncated(history, reply) ==
    LET ends == { j \in 1..Len(reply) : \E n \in BlockNames : reply[j] = Close(n) }
    IN  add_message(history, "assistant",
                    IF ends = {} THEN reply ELSE SubSeq(reply, 1, Min(ends)))

\* the reply is not recorded at this point
process_response_record_Deferred(history, reply) == history

\* line 67: the reply is recorded before the parser runs
process_response_record(history, reply) == add_message(history, "assistant", reply)

\* the name is tested for None only: `if tool is not None`
process_response_classify_TestsSome(reply) ==
    LET parsed == parse_tool_use(reply)
    IN  IF parsed.tool.some
        THEN ProcessedResponse(TOOL_CALL, reply, parsed.tool, Some(parsed.params))
        ELSE ProcessedResponse(FINAL_RESPONSE, reply, NoName, None)

\* the parameters are left out of a tool call
process_response_classify_NoParams(reply) ==
    LET parsed == parse_tool_use(reply)
    IN  IF TruthyName(parsed.tool)
        THEN ProcessedResponse(TOOL_CALL, reply, parsed.tool, None)
        ELSE ProcessedResponse(FINAL_RESPONSE, reply, NoName, None)

\* a tool call needs parameters: `if tool and params`
process_response_classify_RequiresParams(reply) ==
    LET parsed == parse_tool_use(reply)
    IN  IF TruthyName(parsed.tool) /\ parsed.params # EmptyParams
        THEN ProcessedResponse(TOOL_CALL, reply, parsed.tool, Some(parsed.params))
        ELSE ProcessedResponse(FINAL_RESPONSE, reply, NoName, None)

\* lines 68-77
process_response_classify(reply) ==
    LET parsed == parse_tool_use(reply)
    IN  IF TruthyName(parsed.tool)
        THEN ProcessedResponse(TOOL_CALL, reply, parsed.tool, Some(parsed.params))
        ELSE ProcessedResponse(FINAL_RESPONSE, reply, NoName, None)

------------------------------------------------------------------------------
(* The permission gate *)

Whitespace == { " ", "\t" }

LowerChar(c) ==
    CASE c = "Y" -> "y"
      [] c = "E" -> "e"
      [] c = "S" -> "s"
      [] c = "N" -> "n"
      [] c = "O" -> "o"
      [] OTHER -> c

\* str.lower()
Lower(t) == [i \in 1..Len(t) |-> LowerChar(t[i])]

\* str.strip()
Strip(t) ==
    LET solid == { i \in 1..Len(t) : t[i] \notin Whitespace }
    IN  IF solid = {} THEN <<>>
        ELSE SubSeq(t, Min(solid), CHOOSE j \in solid : \A k \in solid : k <= j)

Yes == <<"y", "e", "s">>
No == <<"n", "o">>

\* the answer is lower-cased but not trimmed
_ask_permission_NoStrip(typed) ==
    LET answer == Lower(typed)
    IN  [returns |-> answer \in { Yes, No }, value |-> answer = Yes]

\* any accepted answer counts as consent
_ask_permission_AnyAnswer(typed) ==
    LET answer == Lower(Strip(typed))
    IN  [returns |-> answer \in { Yes, No }, value |-> answer \in { Yes, No }]

\* one round of the loop of _ask_permission on the line typed by the operator:
\* whether it returns, and what
_ask_permission(typed) ==
    LET answer == Lower(Strip(typed))
    IN  [returns |-> answer \in { Yes, No }, value |-> answer = Yes]

Inputs == { <<"y", "e", "s">>, <<" ", "Y", "E", "S", " ">>, <<"N", "o">>,
            <<"n", "o", "\t">>, <<"y">>, <<>>, <<"y", "e", "s", "!">>,
            <<"y", " ", "e", "s">>, <<" ">> }

------------------------------------------------------------------------------
(* Tool execution *)

ToolResult(message, data) == [message |-> message, data |-> data]

OptTexts == { None, Some(<<>>), Some(<<"text">>) }
OptData == { None, Some(<<>>), Some(<<"payload">>) }

\* what a tool handler may do when executed
Behaviours ==
    [kind : { "return" }, message : OptTexts, data : OptData, error : { <<>> }]
    \cup [kind : { "raise" }, message : { None }, data : { None },
          error : { <<"no such file">> }]

\* ToolManager.execute_tool: resolves the name and runs the handler; an unknown
\* name and a failing handler both come back as a ToolResult carrying a message
tool_manager_execute_tool(tool, params, behaviour) ==
    IF tool \notin tool_manager
    THEN ToolResult(Some(<<"Unknown tool: " \o tool>>), None)
    ELSE IF behaviour.kind = "raise"
         THEN ToolResult(Some(<<"Tool execution failed: ">> \o behaviour.error), None)
         ELSE ToolResult(behaviour.message, behaviour.data)

\* the data is recorded before the message
execute_tool_DataFirst(history, result) ==
    LET h1 == IF Truthy(result.data)
              THEN add_message(history, "user", result.data.val)
              ELSE history
        h2 == IF Truthy(result.message)
              THEN add_message(h1, "user", result.message.val)
              ELSE h1
    IN  [history |-> h2, ret |-> result.message]

\* only the data is recorded
execute_tool_SkipMessage(history, result) ==
    [history |-> IF Truthy(result.data)
                 THEN add_message(history, "user", result.data.val)
                 ELSE history,
     ret |-> result.message]

\* the message is recorded only when there is data as well
execute_tool_NestedMessage(history, result) ==
    [history |-> IF Truthy(result.data)
                 THEN add_message(IF Truthy(result.message)
                                  THEN add_message(history, "user", result.message.val)
                                  ELSE history,
                                  "user", result.data.val)
                 ELSE history,
     ret |-> result.message]

\* what was appended last is returned: the data when there is some
execute_tool_ReturnsEither(history, result) ==
    LET h1 == IF Truthy(result.message)
              THEN add_message(history, "user", result.message.val)
              ELSE history
        h2 == IF Truthy(result.data)
              THEN add_message(h1, "user", result.data.val)
              ELSE h1
    IN  [history |-> h2,
         ret |-> IF Truthy(result.data) THEN result.data ELSE result.message]

\* the tool's message is recorded as the assistant's
execute_tool_AsAssistant(history, result) ==
    LET h1 == IF Truthy(result.message)
              THEN add_message(history, "assistant", result.message.val)
              ELSE history
        h2 == IF Truthy(result.data)
              THEN add_message(h1, "user", result.data.val)
              ELSE h1
    IN  [history |-> h2, ret |-> result.message]

\* the data is returned instead of the message
execute_tool_ReturnsData(history, result) ==
    LET h1 == IF Truthy(result.message)
              THEN add_message(history, "user", result.message.val)
              ELSE history
        h2 == IF Truthy(result.data)
              THEN add_message(h1, "user", result.data.val)
              ELSE h1
    IN  [history |-> h2, ret |-> result.data]

\* lines 84-89: what execute_tool appends, and what it returns
execute_tool(history, result) ==
    LET h1 == IF Truthy(result.message)
              THEN add_message(history, "user", result.message.val)
              ELSE history
        h2 == IF Truthy(result.data)
              THEN add_message(h1, "user", result.data.val)
              ELSE h1
    IN  [history |-> h2, ret |-> result.message]

\* the notice takes the place of the latest message
handle_tool_denial_ReplacesLast(history, tool) ==
    add_message(SubSeq(history, 1, Len(history) - 1), "user",
                <<"Tool execution denied: " \o FormatName(tool)>>)

\* the notice is recorded under the wrong role
handle_tool_denial_AsAssistant(history, tool) ==
    add_message(history, "assistant", <<"Tool execution denied: " \o FormatName(tool)>>)

\* lines 97-98
handle_tool_denial(history, tool) ==
    add_message(history, "user", <<"Tool execution denied: " \o FormatName(tool)>>)

------------------------------------------------------------------------------
(* The model backend *)

BackendOutcomes ==
    [ok : { TRUE }, reply : Replies] \cup [ok : { FALSE }, reply : { <<>> }]

\* a failure of chat() is caught and reported as a message
get_next_response_Swallow(history, outcome) ==
    [history |-> IF outcome.ok THEN history
                 ELSE add_message(history, "user", <<"Backend error">>),
     context |-> get_context(history),
     ret     |-> IF outcome.ok THEN Some(outcome.reply) ELSE Some(<<"Backend error">>),
     raised  |-> ""]

\* the backend is sent the context latest message first
get_next_response_ReversedContext(history, outcome) ==
    [history |-> history,
     context |-> [i \in 1..Len(history) |-> get_context(history)[Len(history) + 1 - i]],
     ret     |-> IF outcome.ok THEN Some(outcome.reply) ELSE None,
     raised  |-> IF outcome.ok THEN "" ELSE "BackendCommunicationError"]

\* the backend is sent the context without its latest message
get_next_response_StaleContext(history, outcome) ==
    [history |-> history,
     context |-> SubSeq(get_context(history), 1, Len(history) - 1),
     ret     |-> IF outcome.ok THEN Some(outcome.reply) ELSE None,
     raised  |-> IF outcome.ok THEN "" ELSE "BackendCommunicationError"]

\* line 93: chat() on the current context; a failure of chat() is not caught
get_next_response(history, outcome) ==
    [history |-> history,
     context |-> get_context(history),
     ret     |-> IF outcome.ok THEN Some(outcome.reply) ELSE None,
     raised  |-> IF outcome.ok THEN "" ELSE "BackendCommunicationError"]

------------------------------------------------------------------------------
(* The state after construction *)

Init ==
    /\ conversations \in InitialHistories
    /\ caller \in { "cycle", "direct" }
    /\ state = IF caller = "cycle" THEN "AWAITING_MODEL" ELSE "NONE"
    /\ pc = "idle"
    /\ response = None
    /\ processed = NoProcessed
    /\ last = [op |-> "init", len0 |-> Len(conversations)]
    /\ context = <<>>
    /\ output = None
    /\ nChat = 0
    /\ nExec = 0
    /\ nOps = 0
    /\ prompts = 0
    /\ replies = <<>>
    /\ gates = <<>>
    /\ tool_manager = ToolNames

\* a direct caller starts one more operation
DirectCall ==
    /\ caller = "direct"
    /\ nOps < MaxOps
    /\ nOps' = nOps + 1
    /\ UNCHANGED <<state, response, processed, output>>

DirectReturn ==
    /\ caller = "direct"
    /\ UNCHANGED <<state, response, processed, output, nOps>>

DirectTools == { "read_file", CompletionTool, "bogus" }

------------------------------------------------------------------------------
(* The agent cycle (specification, section 4.4): which operation it calls   *)
(* in each of its states, and where the operation's result takes it.        *)

\* AWAITING_MODEL: send the context; a backend failure is fatal for the turn
CycleAwaitingModel(r) ==
    /\ caller = "cycle"
    /\ state = "AWAITING_MODEL"
    /\ ~response.some
    /\ nChat < MaxTurns
    /\ response' = r.ret
    /\ state' = IF r.raised = "" THEN "AWAITING_MODEL" ELSE "FAILED"
    /\ UNCHANGED <<processed, output, nOps>>

\* AWAITING_MODEL: the reply is recorded upon receipt
CycleRecordReply(reply) ==
    /\ caller = "cycle"
    /\ state = "AWAITING_MODEL"
    /\ response = Some(reply)
    /\ response' = None
    /\ state' = "PARSING"
    /\ UNCHANGED <<processed, output, nOps>>

\* PARSING: ToolCall -> GATING; FinalAnswer -> FINALIZED, text returned
CycleParsing(ret) ==
    /\ caller = "cycle"
    /\ processed' = ret
    /\ state' = IF ret.type = TOOL_CALL THEN "GATING" ELSE "FINALIZED"
    /\ output' = IF ret.type = TOOL_CALL THEN output ELSE Some(ret.content)
    /\ UNCHANGED <<response, nOps>>

\* GATING: run the permission gate on the tool name
CycleGating(tool) ==
    /\ caller = "cycle"
    /\ state = "GATING"
    /\ tool = processed.tool_name.val
    /\ UNCHANGED <<state, response, processed, output, nOps>>

\* GATING: approved -> EXECUTING, denied -> DENIED
CycleGated(approved) ==
    /\ caller = "cycle"
    /\ state' = IF approved THEN "EXECUTING" ELSE "DENIED"
    /\ UNCHANGED <<response, processed, output, nOps>>

\* the gate prompts again: the cycle stays blocked in it
CycleBlocked == UNCHANGED <<state, response, processed, output, nOps>>

\* EXECUTING: back to AWAITING_MODEL, unless the tool is the completion tool,
\* whose result is the final output
CycleExecuting(tool, ret) ==
    /\ caller = "cycle"
    /\ state = "EXECUTING"
    /\ tool = processed.tool_name.val
    /\ state' = IF tool = CompletionTool THEN "FINALIZED" ELSE "AWAITING_MODEL"
    /\ output' = IF tool = CompletionTool THEN ret ELSE output
    /\ UNCHANGED <<response, processed, nOps>>

\* DENIED: the notice is appended, back to AWAITING_MODEL
CycleDenied(tool) ==
    /\ caller = "cycle"
    /\ state = "DENIED"
    /\ tool = processed.tool_name
    /\ state' = "AWAITING_MODEL"
    /\ UNCHANGED <<response, processed, output, nOps>>

------------------------------------------------------------------------------
(* get_next_response, lines 91-93.  In the cycle: AWAITING_MODEL sends the  *)
(* context to the backend; a failure ends the cycle invocation.             *)

GetNextResponse ==
    /\ pc = "idle"
    /\ \E outcome \in BackendOutcomes :
         LET r == get_next_response(conversations, outcome)
         IN  /\ conversations' = r.history
             /\ context' = r.context
             /\ last' = [op |-> "get_next_response", len0 |-> Len(conversations),
                         ok |-> outcome.ok, ret |-> r.ret, raised |-> r.raised]
             /\ CycleAwaitingModel(r) \/ DirectCall
    /\ nChat' = nChat + 1
    /\ UNCHANGED <<caller, pc, nExec, prompts, replies, gates, tool_manager>>

------------------------------------------------------------------------------
(* process_response, lines 65-77, in its two steps: the reply is recorded   *)
(* (line 67), then parsed and classified (lines 68-77).                     *)

ProcessResponseRecord ==
    /\ pc = "idle"
    /\ \E reply \in Replies :
         /\ CycleRecordReply(reply) \/ DirectCall
         /\ conversations' = process_response_record(conversations, reply)
         /\ replies' = Append(replies, reply)
         /\ last' = [op |-> "process_response", step |-> "record", reply |-> reply,
                     len0 |-> Len(conversations)]
    /\ pc' = "parse"
    /\ UNCHANGED <<caller, context, nChat, nExec, prompts, gates, tool_manager>>

ProcessResponseParse ==
    /\ pc = "parse"
    /\ LET ret == process_response_classify(last.reply)
       IN  /\ last' = [op |-> "process_response", step |-> "return",
                       reply |-> last.reply, len0 |-> last.len0, ret |-> ret]
           /\ CycleParsing(ret) \/ DirectReturn
    /\ pc' = "idle"
    /\ UNCHANGED <<conversations, caller, context, nChat, nExec, prompts, replies, gates, tool_manager>>

------------------------------------------------------------------------------
(* _ask_permission, lines 51-60: the call prints the prompt and waits; each *)
(* line typed either makes it return or makes it prompt again.              *)

AskPermission ==
    /\ pc = "idle"
    /\ \E tool \in DirectTools \cup ToolNames :
         /\ CycleGating(tool) \/ (tool \in DirectTools /\ DirectCall)
         /\ last' = [op |-> "_ask_permission", step |-> "prompt", tool |-> tool,
                     typed |-> <<>>, len0 |-> Len(conversations)]
    /\ pc' = "ask"
    /\ prompts' = 0
    /\ UNCHANGED <<conversations, caller, context, nChat, nExec, replies, gates, tool_manager>>

ReadAnswer ==
    /\ pc = "ask"
    /\ \E typed \in Inputs :
         LET r == _ask_permission(typed)
         IN  \/ /\ r.returns
                /\ pc' = "idle"
                /\ last' = [op |-> "_ask_permission", step |-> "return",
                            tool |-> last.tool, typed |-> typed, len0 |-> last.len0,
                            ret |-> r.value]
                /\ prompts' = prompts
                /\ gates' = Append(gates, r.value)
                /\ CycleGated(r.value) \/ DirectReturn
             \/ /\ ~r.returns
                /\ prompts < MaxPrompts
                /\ pc' = "ask"
                /\ last' = [op |-> "_ask_permission", step |-> "prompt",
                            tool |-> last.tool, typed |-> typed, len0 |-> last.len0]
                /\ prompts' = prompts + 1
                /\ gates' = gates
                /\ CycleBlocked
    /\ UNCHANGED <<conversations, caller, context, nChat, nExec, replies, tool_manager>>

------------------------------------------------------------------------------
(* execute_tool, lines 79-89.  In the cycle: EXECUTING; the completion tool *)
(* ends the cycle with what execute_tool returned.                          *)

ExecuteTool ==
    /\ pc = "idle"
    /\ \E tool \in DirectTools \cup ToolNames, behaviour \in Behaviours :
         LET params == IF caller = "cycle" THEN processed.tool_params.val
                       ELSE EmptyParams
             result == tool_manager_execute_tool(tool, params, behaviour)
             r == execute_tool(conversations, result)
             ran == tool \in tool_manager
         IN  /\ CycleExecuting(tool, r.ret) \/ (tool \in DirectTools /\ DirectCall)
             /\ conversations' = r.history
             /\ last' = [op |-> "execute_tool", tool |-> tool, params |-> params,
                         ran |-> ran, failed |-> ran /\ behaviour.kind = "raise",
                         result |-> result, ret |-> r.ret, raised |-> "",
                         len0 |-> Len(conversations)]
             /\ nExec' = IF ran THEN nExec + 1 ELSE nExec
    /\ UNCHANGED <<caller, pc, context, nChat, prompts, replies, gates, tool_manager>>

------------------------------------------------------------------------------
(* handle_tool_denial, lines 95-99.  In the cycle: DENIED.                  *)

HandleToolDenial ==
    /\ pc = "idle"
    /\ \E tool \in { NoName } \cup { [some |-> TRUE, val |-> n] : n \in DirectTools } :
         /\ CycleDenied(tool) \/ DirectCall
         /\ conversations' = handle_tool_denial(conversations, tool)
         /\ last' = [op |-> "handle_tool_denial", tool |-> tool,
                     len0 |-> Len(conversations)]
    /\ UNCHANGED <<caller, pc, context, nChat, nExec, prompts, replies, gates, tool_manager>>

------------------------------------------------------------------------------
(* get_tools_description, lines 62-63 *)

GetToolsDescription ==
    /\ pc = "idle"
    /\ DirectCall
    /\ last' = [op |-> "get_tools_description", ret |-> get_tools_description,
                len0 |-> Len(conversations)]
    /\ UNCHANGED <<conversations, caller, pc, context, nChat, nExec, prompts, replies, gates, tool_manager>>

------------------------------------------------------------------------------

Next ==
    \/ GetNextResponse
    \/ ProcessResponseRecord
    \/ ProcessResponseParse
    \/ AskPermission
    \/ ReadAnswer
    \/ ExecuteTool
    \/ HandleToolDenial
    \/ GetToolsDescription

Spec == Init /\ [][Next]_vars

------------------------------------------------------------------------------
(* Steps of the handler, as seen between two states *)

\* the contents of the assistant messages of a history, in order
AssistantContents(history) ==
    LET a == SelectSeq(history, LAMBDA m : m.role = "assistant")
    IN  [i \in 1..Len(a) |-> a[i].content]

\* the step is a step of operation op (every operation names itself in last)
StepOf(op) == vars' # vars /\ last'.op = op

\* the step invokes a tool handler
HandlerRuns == nExec' = nExec + 1

\* the gate has just returned true for this tool on an operator's "yes"
Approved(tool) ==
    /\ last.op = "_ask_permission"
    /\ last.step = "return"
    /\ last.tool = tool
    /\ last.ret = TRUE
    /\ Lower(Strip(last.typed)) = Yes

DenialNotice(name) == Message("user", <<"Tool execution denied: " \o name>>)

------------------------------------------------------------------------------
(* C1: every process_response(r) appends exactly one assistant message     *)
(* holding r verbatim, and has done so while the parser has not run yet    *)
(* (pc = "parse"), whatever r is classified as afterwards; so the          *)
(* assistant messages of the history are exactly the replies received, in  *)
(* order.                                                                  *)
C1_ReplyRecordedBeforeParsing ==
    /\ pc = "parse" => last.op = "process_response" /\ last.step = "record"
    /\ last.op = "process_response" =>
          /\ Len(conversations) = last.len0 + 1
          /\ conversations[Len(conversations)] = Message("assistant", last.reply)
          /\ replies[Len(replies)] = last.reply
    /\ AssistantContents(conversations) = replies

C1_Witness ==
    /\ caller = "cycle"
    /\ last.op = "process_response"
    /\ last.step = "return"
    /\ last.ret.type = FINAL_RESPONSE
    /\ Len(replies) = 2
    /\ process_response_classify(replies[1]).type = TOOL_CALL

(* C2: a denial never invokes a tool handler and appends exactly one       *)
(* message, of role user and content "Tool execution denied: <name>"; in   *)
(* the cycle the step out of DENIED is that append, made before any        *)
(* further model call, and it leads back to AWAITING_MODEL.                *)
C2_DenialAppendsOneNotice ==
    [][ /\ StepOf("handle_tool_denial") =>
             /\ ~HandlerRuns
             /\ nChat' = nChat
             /\ \E name \in BlockNames \cup { "None" } :
                  conversations' = Append(conversations, DenialNotice(name))
        /\ (caller = "cycle" /\ state = "DENIED") =>
             /\ ~Approved(processed.tool_name.val)
             /\ StepOf("handle_tool_denial")
             /\ conversations' =
                  Append(conversations, DenialNotice(processed.tool_name.val))
             /\ state' = "AWAITING_MODEL"
      ]_vars

C2_Witness ==
    /\ caller = "cycle"
    /\ state = "AWAITING_MODEL"
    /\ last.op = "handle_tool_denial"
    /\ nExec = 0
    /\ conversations[Len(conversations)] = DenialNotice("read_file")

(* C3, as stated: no tool handler runs unless the gate has just been run   *)
(* on that tool's name and returned true, whoever calls the handler.       *)
C3_EveryExecutionGated ==
    [][ HandlerRuns => Approved(last'.tool) ]_vars

(* C3, amended: in the agent cycle, no tool handler runs unless the gate   *)
(* has just been run on that tool's name and returned true on the          *)
(* operator's "yes"; execute_tool itself checks no permission.             *)
C3_CycleExecutionGated ==
    [][ (caller = "cycle" /\ HandlerRuns) => Approved(last'.tool) ]_vars

C3_Witness ==
    /\ caller = "cycle"
    /\ last.op = "execute_tool"
    /\ last.ran
    /\ last.tool = "read_file"

(* What a ToolResult puts in the conversation *)

UserMessages(parts) == [i \in 1..Len(parts) |-> Message("user", parts[i])]

\* the fields that are set (not None), message first
SetParts(result) ==
    (IF result.message.some THEN <<result.message.val>> ELSE <<>>)
    \o (IF result.data.some THEN <<result.data.val>> ELSE <<>>)

\* the fields that are set and not empty, message first
NonEmptyParts(result) ==
    (IF result.message.some /\ Len(result.message.val) > 0
     THEN <<result.message.val>> ELSE <<>>)
    \o (IF result.data.some /\ Len(result.data.val) > 0
        THEN <<result.data.val>> ELSE <<>>)

\* what the operation recorded in last has appended
Appended == Suffix(conversations, last.len0)

(* C4, as stated: a tool returning both message and data appends two user  *)
(* messages, message then data; one returning only one of them appends     *)
(* exactly that one; one returning neither appends none.                   *)
C4_AppendsWhatIsReturned ==
    last.op = "execute_tool" => Appended = UserMessages(SetParts(last.result))

(* C4, amended: a message or data that is None or empty is not appended;   *)
(* a result with a non-empty message and non-empty data appends two user   *)
(* messages, message then data; with only one of them non-empty, exactly   *)
(* that one; with neither, none.                                           *)
C4_AppendsNonEmptyParts ==
    last.op = "execute_tool" => Appended = UserMessages(NonEmptyParts(last.result))

C4_Witness ==
    /\ last.op = "execute_tool"
    /\ last.ran
    /\ last.result = ToolResult(Some(<<"text">>), Some(<<"payload">>))
    /\ Len(conversations) = last.len0 + 2

(* C5: executing a tool name that is not registered does not raise and     *)
(* appends an unknown-tool message (so at least one message); the cycle    *)
(* goes on to the next model call.                                         *)
C5_UnknownToolReported ==
    (last.op = "execute_tool" /\ ~last.ran) =>
        /\ last.raised = ""
        /\ Len(conversations) > last.len0
        /\ conversations[last.len0 + 1] =
             Message("user", <<"Unknown tool: " \o last.tool>>)
        /\ caller = "cycle" => state = "AWAITING_MODEL"

C5_Witness ==
    /\ caller = "cycle"
    /\ last.op = "execute_tool"
    /\ last.tool = "bogus"
    /\ state = "AWAITING_MODEL"
    /\ Len(conversations) = last.len0 + 1

C7_BackendFailurePropagates ==
    [][ /\ (StepOf("get_next_response") /\ ~last'.ok) =>
             /\ last'.raised = "BackendCommunicationError"
             /\ last'.ret = None
             /\ conversations' = conversations
             /\ nChat' = nChat + 1
             /\ caller = "cycle" => state' = "FAILED" /\ response' = None
        /\ state = "FAILED" => vars' = vars
      ]_vars

C7_Witness ==
    /\ caller = "cycle"
    /\ state = "FAILED"
    /\ nChat = 2
    /\ last.op = "get_next_response"
    /\ Len(conversations) = last.len0

(* C8, as stated: the completion tool's execution result is not fed back   *)
(* into the conversation; it is the cycle's final output and no model call *)
(* follows.                                                                *)
C8_CompletionNotRecorded ==
    (caller = "cycle" /\ last.op = "execute_tool" /\ last.tool = CompletionTool) =>
        /\ Appended = <<>>
        /\ state = "FINALIZED"
        /\ output = last.result.message

(* C8, amended: execute_tool appends the completion tool's message and     *)
(* data to the conversation as for any tool; in the cycle the message it   *)
(* returns is the final output, the cycle is finalized, and no model call  *)
(* or other step follows.                                                  *)
C8_CompletionIsTerminal ==
    [][ /\ (caller = "cycle" /\ StepOf("execute_tool") /\ last'.tool = CompletionTool) =>
             /\ conversations' =
                  conversations \o UserMessages(NonEmptyParts(last'.result))
             /\ state' = "FINALIZED"
             /\ output' = last'.result.message
             /\ nChat' = nChat
        /\ state = "FINALIZED" => vars' = vars
      ]_vars

C8_Witness ==
    /\ caller = "cycle"
    /\ state = "FINALIZED"
    /\ last.op = "execute_tool"
    /\ last.tool = CompletionTool
    /\ last.ran
    /\ output = Some(<<"text">>)
    /\ Len(conversations) = last.len0 + 2

(* C9: when the cycle calls the model again, the conversation ends with    *)
(* the turn's assistant reply followed by the denial notice, or by the     *)
(* tool's message and then its data, and the context sent is that whole    *)
(* conversation.                                                           *)
C9_TurnOrderBeforeModelCall ==
    [][ (caller = "cycle" /\ StepOf("get_next_response") /\ nChat >= 1) =>
          /\ last.op \in { "execute_tool", "handle_tool_denial" }
          /\ last.len0 >= 1
          /\ Len(replies) = nChat
          /\ conversations[last.len0] = Message("assistant", replies[nChat])
          /\ Appended =
               IF last.op = "handle_tool_denial"
               THEN <<DenialNotice(processed.tool_name.val)>>
               ELSE UserMessages(NonEmptyParts(last.result))
          /\ context' = conversations
      ]_vars

C9_Witness ==
    /\ caller = "cycle"
    /\ last.op = "get_next_response"
    /\ nChat = 2
    /\ Len(context) >= 3
    /\ context[Len(context) - 2].role = "assistant"
    /\ context[Len(context) - 1] = Message("user", <<"text">>)
    /\ context[Len(context)] = Message("user", <<"payload">>)

(* C10: the gate leaves its loop only on a line that, trimmed and          *)
(* lower-cased, is "yes" or "no", returning true exactly on "yes"; on any  *)
(* other line it prompts again; it has no other way out and never touches  *)
(* the conversation.                                                       *)
C10_GateReturnsOnYesOrNo ==
    [][ pc = "ask" =>
          LET answer == Lower(Strip(last'.typed))
          IN  /\ StepOf("_ask_permission")
              /\ conversations' = conversations
              /\ last'.tool = last.tool
              /\ \/ /\ answer \in { Yes, No }
                    /\ pc' = "idle"
                    /\ last'.step = "return"
                    /\ last'.ret = (answer = Yes)
                 \/ /\ answer \notin { Yes, No }
                    /\ pc' = "ask"
                    /\ last'.step = "prompt"
                    /\ prompts' = prompts + 1
      ]_vars

C10_Witness ==
    /\ last.op = "_ask_permission"
    /\ last.step = "return"
    /\ prompts >= 1
    /\ last.typed = <<" ", "Y", "E", "S", " ">>
    /\ last.ret = TRUE

(* C11: the conversation is append-only under every operation of the      *)
(* handler: each step leaves the earlier history as a prefix of the later  *)
(* one.                                                                    *)
C11_AppendOnly ==
    [][ IsPrefix(conversations, conversations') ]_vars

C11_Witness ==
    /\ caller = "direct"
    /\ nOps = MaxOps
    /\ last.op = "handle_tool_denial"
    /\ last.len0 >= 2
    /\ conversations[last.len0].role = "user"

(* C12: process_response classifies a reply as a tool call or as a final   *)
(* response: a well-formed block for a registered tool gives a tool call   *)
(* with that tool's name and all its parameters; a reply with no block     *)
(* gives a final response whose text is the reply.                         *)
C12_Classification ==
    (last.op = "process_response" /\ last.step = "return") =>
        /\ last.ret.type \in { TOOL_CALL, FINAL_RESPONSE }
        /\ last.reply = ReadReply =>
             last.ret = ProcessedResponse(TOOL_CALL, ReadReply,
                            [some |-> TRUE, val |-> "read_file"],
                            Some([k \in { "path" } |-> <<"x">>]))
        /\ last.reply = CompletionReply =>
             last.ret = ProcessedResponse(TOOL_CALL, CompletionReply,
                            [some |-> TRUE, val |-> CompletionTool],
                            Some([k \in { "result" } |-> <<"ok">>]))
        /\ (\A i \in 1..Len(last.reply) : \A n \in BlockNames : last.reply[i] # Open(n)) =>
             last.ret = ProcessedResponse(FINAL_RESPONSE, last.reply, NoName, None)

C12_Witness ==
    /\ last.op = "process_response"
    /\ last.step = "return"
    /\ last.reply = ReadReply
    /\ last.ret.type = TOOL_CALL
    /\ last.ret.tool_params.val["path"] = <<"x">>

(* C13: in the cycle, with the backend answering a read_file directive and *)
(* then a plain final answer, and the gate approving: the conversation is  *)
(* the initial history, reply 1, the tool's result, the final answer; the  *)
(* second call was sent everything before the final answer; the final text  *)
(* is returned after exactly two backend calls and one tool execution.     *)
C13_EndToEnd ==
    (/\ caller = "cycle"
     /\ state = "FINALIZED"
     /\ replies = <<ReadReply, PlainReply>>
     /\ gates = <<TRUE>>) =>
        LET n == Len(conversations)
        IN  /\ nChat = 2
            /\ nExec = 1
            /\ output = Some(PlainReply)
            /\ AssistantContents(conversations) = replies
            /\ conversations[n] = Message("assistant", PlainReply)
            /\ \E k \in 1..2 :
                 /\ conversations[k] = Message("assistant", ReadReply)
                 /\ SubSeq(conversations, 1, k - 1) \in InitialHistories
                 /\ n - 1 - k <= 2
                 /\ \A i \in (k + 1)..(n - 1) : conversations[i].role = "user"
            /\ context = SubSeq(conversations, 1, n - 1)

C13_Witness ==
    /\ caller = "cycle"
    /\ state = "FINALIZED"
    /\ replies = <<ReadReply, PlainReply>>
    /\ gates = <<TRUE>>
    /\ Len(conversations) = 5
    /\ conversations[3] = Message("user", <<"text">>)
    /\ conversations[4] = Message("user", <<"payload">>)

(* C14: the context handed to the backend by get_next_response is exactly  *)
(* the conversation, message for message, in order.                        *)
C14_ContextIsConversation ==
    last.op = "get_next_response" =>
        /\ Len(context) = Len(conversations)
        /\ \A i \in 1..Len(conversations) : context[i] = conversations[i]
        /\ Len(conversations) = last.len0

C14_Witness ==
    /\ last.op = "get_next_response"
    /\ Len(context) >= 3
    /\ context[1].role = "user"
    /\ context[2].role = "assistant"
    /\ context[3].role = "user"

(* C15: of a reply with a tool-call block followed by more text and a      *)
(* further block, only the first block is dispatched, so a reply gives at  *)
(* most one tool execution, while the whole reply is the assistant         *)
(* message.                                                                *)
C15_FirstBlockOnly ==
    /\ (last.op = "process_response" /\ last.reply = TrailingReply) =>
          conversations[Len(conversations)] = Message("assistant", TrailingReply)
    /\ (last.op = "process_response" /\ last.step = "return"
          /\ last.reply = TrailingReply) =>
          last.ret = ProcessedResponse(TOOL_CALL, TrailingReply,
                         [some |-> TRUE, val |-> "read_file"],
                         Some([k \in { "path" } |-> <<"x">>]))
    /\ caller = "cycle" =>
          /\ nExec <= Len(replies)
          /\ (last.op = "execute_tool" /\ replies[Len(replies)] = TrailingReply) =>
                last.tool = "read_file"

C15_Witness ==
    /\ caller = "cycle"
    /\ last.op = "execute_tool"
    /\ replies = <<TrailingReply>>
    /\ last.tool = "read_file"
    /\ nExec = 1
    /\ state = "AWAITING_MODEL"

(* C16: a reply whose tool-call block lacks its closing delimiter does not *)
(* make process_response fail: it is classified as a tool call with an     *)
(* empty parameter mapping, and the cycle dispatches it with that mapping. *)
C16_MalformedBlockDispatched ==
    /\ (last.op = "process_response" /\ last.step = "return"
          /\ last.reply = MalformedReply) =>
          last.ret = ProcessedResponse(TOOL_CALL, MalformedReply,
                         [some |-> TRUE, val |-> "read_file"], Some(EmptyParams))
    /\ (caller = "cycle" /\ last.op = "process_response" /\ last.step = "return"
          /\ last.reply = MalformedReply) =>
          state = "GATING" /\ processed = last.ret
    /\ (caller = "cycle" /\ last.op = "execute_tool"
          /\ replies[Len(replies)] = MalformedReply) =>
          last.tool = "read_file" /\ last.params = EmptyParams

C16_Witness ==
    /\ caller = "cycle"
    /\ last.op = "execute_tool"
    /\ replies[Len(replies)] = MalformedReply
    /\ last.params = EmptyParams
    /\ last.ran

(* C18, as stated: execute_tool returns the result's message and nothing   *)
(* else; a tool returning only data makes it append one user message and   *)
(* return None; a tool returning neither makes it append nothing and       *)
(* return None.                                                            *)
C18_ReturnsMessageOrNone ==
    last.op = "execute_tool" =>
        /\ last.ret = last.result.message
        /\ (~last.result.message.some /\ last.result.data.some) =>
              Len(Appended) = 1 /\ last.ret = None
        /\ (~last.result.message.some /\ ~last.result.data.some) =>
              Appended = <<>> /\ last.ret = None

(* C18, amended: execute_tool returns the result's message field as it is, *)
(* whatever the data; with no message and non-empty data it appends one    *)
(* user message, the data, and returns None; with no message and no or     *)
(* empty data it appends nothing and returns None; an empty message is not *)
(* appended and is returned as the empty text, not as None.                *)
C18_ReturnsMessageField ==
    last.op = "execute_tool" =>
        LET message == last.result.message
            data == last.result.data
        IN  /\ last.ret = message
            /\ (~message.some /\ data.some /\ Len(data.val) > 0) =>
                  Appended = <<Message("user", data.val)>> /\ last.ret = None
            /\ (~message.some /\ (~data.some \/ Len(data.val) = 0)) =>
                  Appended = <<>> /\ last.ret = None
            /\ (message.some /\ Len(message.val) = 0) =>
                  /\ last.ret = Some(<<>>)
                  /\ last.ret # None
                  /\ \A i \in 1..Len(Appended) : Appended[i].content # <<>>

C18_Witness ==
    /\ last.op = "execute_tool"
    /\ last.ran
    /\ last.result = ToolResult(None, Some(<<"payload">>))
    /\ last.ret = None
    /\ Len(conversations) = last.len0 + 1

(* C19: the ProcessedResponse returned by process_response holds the raw   *)
(* reply as its content; a TOOL_CALL carries a non-empty tool name; a      *)
(* FINAL_RESPONSE has no tool name and no parameters; a reply whose block  *)
(* has an empty name, or that has no block, is a FINAL_RESPONSE, whatever  *)
(* parameters the block holds.                                             *)
C19_ProcessedResponseWellFormed ==
    (last.op = "process_response" /\ last.step = "return") =>
        /\ last.ret.content = last.reply
        /\ last.ret.type = TOOL_CALL =>
              /\ last.ret.tool_name.some
              /\ last.ret.tool_name.val # ""
              /\ last.ret.tool_params.some
        /\ last.ret.type = FINAL_RESPONSE =>
              last.ret.tool_name = NoName /\ last.ret.tool_params = None
        /\ last.reply \in { EmptyNameReply, PlainReply } =>
              last.ret.type = FINAL_RESPONSE

C19_Witness ==
    /\ last.op = "process_response"
    /\ last.step = "return"
    /\ last.reply = EmptyNameReply
    /\ parse_tool_use(last.reply).tool = [some |-> TRUE, val |-> ""]
    /\ parse_tool_use(last.reply).params # EmptyParams
    /\ last.ret.type = FINAL_RESPONSE

(* C20: the role of an appended message is fixed by the operation:         *)
(* process_response appends one assistant message per call and is the only *)
(* operation to append one; execute_tool appends at most two messages and  *)
(* handle_tool_denial exactly one, all of role user; get_next_response,    *)
(* _ask_permission and get_tools_description change neither the            *)
(* conversation nor the tool registry.                                     *)
C20_RolesAndFrames ==
    [][ LET new == Suffix(conversations', Len(conversations))
        IN  /\ IsPrefix(conversations, conversations')
            /\ (StepOf("process_response") /\ last'.step = "record") =>
                  Len(new) = 1 /\ new[1].role = "assistant"
            /\ (StepOf("process_response") /\ last'.step = "return") => new = <<>>
            /\ ~StepOf("process_response") =>
                  \A i \in 1..Len(new) : new[i].role = "user"
            /\ StepOf("execute_tool") => Len(new) <= 2
            /\ StepOf("handle_tool_denial") => Len(new) = 1
            /\ (\/ StepOf("get_next_response")
                \/ StepOf("_ask_permission")
                \/ StepOf("get_tools_description")) =>
                  /\ conversations' = conversations
                  /\ tool_manager' = tool_manager
      ]_vars

C20_Witness ==
    /\ caller = "direct"
    /\ last.op = "get_tools_description"
    /\ nOps = 2
    /\ Len(conversations) = last.len0
    /\ Len(conversations) = 3
    /\ conversations[3].role = "user"
    /\ conversations[2].role = "user"

====
